---- MODULE Spec2Model ----
(***************************************************************************)
(* Model of RustPython's import mechanics (vm/src/import.rs) and of the    *)
(* interactive shell loop (src/main.rs).                                   *)
(*                                                                         *)
(* Text is modelled as a sequence of chunks: a module name is the sequence *)
(* of its segments and "." separators, a path the sequence of its segments *)
(* and "/" separators, so that the dotted-name-to-path conversion, the     *)
(* candidate order and the error message are computed, not assumed.        *)
(***************************************************************************)
EXTENDS Integers, Sequences, FiniteSets, TLC

VARIABLES
    fs,           \* the filesystem: path -> content of the file there
    sys_path,     \* sys.path, a sequence of directories
    frozen,       \* vm.frozen: name -> embedded source
    sys_modules,  \* sys.modules: name -> module reference, or NoMod
    heap,         \* the module objects ever created, per name, in creation order
    stack,        \* the call stack: module bodies being run, init_importlib
    ret,          \* the result of the last top-level call
    observed,     \* the module an `import` statement bound in the last step
    events,       \* what the loaders did in the last step (compile, exec, ...)
    executed,     \* name -> how many times run_code_obj ran a body for it
    import_func,  \* vm.import_func
    entry,        \* the request made in the last step: operation, name, path
    call,         \* the top-level call in progress or last made, and whether
                  \* it repeats the call before it, which returned Ok (repeat)
                  \* or Err (retry)
    raised,       \* the modules whose body ended with an exception
    init_done,    \* the steps of init_importlib that returned Ok since the last
                  \* top-level call began
    found,        \* the last result of find_source called on its own
    input,        \* run_shell: the input buffer
    continuing,   \* run_shell: the continuation flag
    shell,        \* run_shell: position of the loop
    history,      \* run_shell: the entries given to the editor's history
    scope_us,     \* run_shell: the binding of "_" in the session scope
    attempt,      \* run_shell: what the last turn of the loop read and did
    proc          \* the process: main's position, the exit status, and what
                  \* the last run_script resolved, ran and returned

importVars == <<fs, sys_path, frozen, sys_modules, heap, stack, ret, observed,
                events, executed, import_func, entry, call, raised, init_done>>
shellVars == <<input, continuing, shell, history, scope_us, attempt>>
vars == <<fs, sys_path, frozen, sys_modules, heap, stack, ret, observed,
          events, executed, import_func, entry, call, raised, init_done, found,
          input, continuing, shell, history, scope_us, attempt, proc>>

(***************************************************************************)
(* Bounds of the model.                                                    *)
(***************************************************************************)
MaxBody == 2      \* statements of a generated module body (before a raise)
MaxFiles == 3     \* files present when find_source is explored on its own
MaxMods == 2      \* module objects per name when loaders are called directly
MaxDepth == 5     \* frames on the call stack
MaxPath == 3      \* entries of sys.path
MaxLines == 4     \* lines read by the shell

(***************************************************************************)
(* Names, directories, paths.                                              *)
(***************************************************************************)
NameA == <<"a">>
NameB == <<"b">>
NameD == <<"d", ".", "m">>
FrozenImportlib == <<"_frozen_importlib">>
Imp == <<"_imp">>
Names == {NameA, NameB, NameD, FrozenImportlib, Imp}

DirC == <<"c">>
DirP == <<"p">>
DirF == <<"frozen">>

NoFile == <<>>
NoMod == [name |-> <<>>, gen |-> 0]

\* vm.stdlib_inits: the names with a builtin factory
stdlib_inits == {Imp}

\* str::replace('.', "/")
replace_dots(name) ==
    [i \in 1..Len(name) |-> IF name[i] = "." THEN "/" ELSE name[i]]

\* PathBuf::push: an absolute argument replaces the path, otherwise it is
\* appended after a separator
push(path, rel) ==
    IF Len(rel) > 0 /\ rel[1] = "/" THEN rel
    ELSE IF Len(path) = 0 \/ path[Len(path)] = "/" THEN path \o rel
    ELSE path \o <<"/">> \o rel

suffixes == << <<".py">>, <<"/", "__init__", ".py">> >>

\* Path::exists
exists(files, p) == p \in DOMAIN files

search_dirs_appended(path_list, current_path) == path_list \o <<current_path>>

\* paths.insert(0, current_path)
search_dirs(path_list, current_path) == <<current_path>> \o path_list

\* the nested loop building file_paths: for each directory, each suffix
candidate_paths(paths, rel_name) ==
    [k \in 1..(2 * Len(paths)) |->
        push(paths[(k + 1) \div 2], rel_name \o suffixes[((k - 1) % 2) + 1])]

not_found_message_slashes(name) ==
    <<"No module named '">> \o replace_dots(name) \o <<"'">>

not_found_message(name) == <<"No module named '">> \o name \o <<"'">>

find_source(files, path_list, current_path, name) ==
    LET paths == search_dirs(path_list, current_path)
        rel_name == replace_dots(name)
        file_paths == candidate_paths(paths, rel_name)
        hits == {k \in DOMAIN file_paths : exists(files, file_paths[k])}
    IN  IF hits # {}
        THEN [ok |-> TRUE,
              path |-> file_paths[CHOOSE k \in hits : \A j \in hits : k <= j],
              msg |-> <<>>]
        ELSE [ok |-> FALSE, path |-> <<>>, msg |-> not_found_message(name)]

(***************************************************************************)
(* Sources and module bodies.  A body is a sequence of statements: `set`   *)
(* binds a name in the module's namespace, `import` requests a module      *)
(* through import_module, `raise` raises.  compile fails on a source that  *)
(* does not parse; util::read_file fails on a file that cannot be read.    *)
(***************************************************************************)
SetStmt(k) == [op |-> "set", key |-> k, target |-> <<>>]
ImportStmt(n) == [op |-> "import", key |-> "", target |-> n]
RaiseStmt == [op |-> "raise", key |-> "", target |-> <<>>]

Source(code) == [kind |-> "source", code |-> code]
SyntaxErr == [kind |-> "syntaxerr", code |-> <<>>]
Unreadable == [kind |-> "unreadable", code |-> <<>>]

KeyAt == <<"k1", "k2", "k3", "k4", "k5", "k6">>

\* bodies of a import a (itself) and b; bodies of b import a and the frozen
\* module, whose body imports a
Shapes(alphabet, n) == UNION {[1..m -> alphabet] : m \in 0..n}

BodyOf(shape, raises) ==
    [i \in 1..Len(shape) |->
        CASE shape[i] = "set" -> SetStmt(KeyAt[i])
          [] shape[i] = "a" -> ImportStmt(NameA)
          [] shape[i] = "b" -> ImportStmt(NameB)
          [] shape[i] = "f" -> ImportStmt(FrozenImportlib)]
    \o (IF raises THEN <<RaiseStmt>> ELSE <<>>)

Bodies(alphabet, endings) ==
    {BodyOf(sh, r) : sh \in Shapes(alphabet, MaxBody), r \in endings}

\* the embedded source of _frozen_importlib: defines the three entry points
\* init_importlib looks up, and imports a file module on the way
FrozenBody ==
    <<SetStmt("_install"), ImportStmt(NameA), SetStmt("__import__"),
      SetStmt("_install_external_importers")>>
FrozenSources == {Source(FrozenBody), Source(<<SetStmt("_install")>>)}

FileOf(dir, name, suffix) == push(dir, replace_dots(name) \o suffixes[suffix])

FsOf(pairs) ==
    [p \in {pr[1] : pr \in pairs} |-> (CHOOSE pr \in pairs : pr[1] = p)[2]]

(***************************************************************************)
(* The interpreter state the loaders read and write, gathered in a record  *)
(* S so that each loader is an operator from state to state.               *)
(***************************************************************************)
Cur ==
    [sys_modules |-> sys_modules, heap |-> heap, stack |-> stack, ret |-> ret,
     observed |-> observed, events |-> events, executed |-> executed,
     import_func |-> import_func, entry |-> entry, call |-> call,
     raised |-> raised, init_done |-> init_done]

Commit(S) ==
    /\ sys_modules' = S.sys_modules
    /\ heap' = S.heap
    /\ stack' = S.stack
    /\ ret' = S.ret
    /\ observed' = S.observed
    /\ events' = S.events
    /\ executed' = S.executed
    /\ import_func' = S.import_func
    /\ entry' = S.entry
    /\ call' = S.call
    /\ raised' = S.raised
    /\ init_done' = S.init_done

Ok(ref) == [status |-> "ok", mod |-> ref, exc |-> "", msg |-> <<>>]
Err(exc, msg) == [status |-> "err", mod |-> NoMod, exc |-> exc, msg |-> msg]
Running == [status |-> "running", mod |-> NoMod, exc |-> "", msg |-> <<>>]
NoRet == [status |-> "none", mod |-> NoMod, exc |-> "", msg |-> <<>>]

NoObs == [importer |-> <<>>, target |-> <<>>, mod |-> NoMod, keys |-> {}]

Frame(kind, name, ref, code) ==
    [kind |-> kind, name |-> name, mod |-> ref, code |-> code, pc |-> 1,
     importlib |-> NoMod, impmod |-> NoMod]

Top(S) == S.stack[Len(S.stack)]
Pop(S) == [S EXCEPT !.stack = SubSeq(@, 1, Len(@) - 1)]
Module(S, ref) == S.heap[ref.name][ref.gen]
Note(S, tag, name) == [S EXCEPT !.events = @ \cup {<<tag, name>>}]

\* the steps of init_importlib, in the order of its statements
InitOrder ==
    <<"import_frozen", "import_builtin", "_install", "__import__",
      "_install_external_importers">>

\* what each step of init_importlib loads, looks up or calls
InitTarget ==
    <<FrozenImportlib, Imp, <<"_install">>, <<"__import__">>,
      <<"_install_external_importers">> >>

\* the modules whose bodies are on the stack
Running_mods(S) ==
    {S.stack[i].mod : i \in {j \in DOMAIN S.stack : S.stack[j].kind = "module"}}

\* A call returns `res` to whoever made it: the top-level caller when no
\* frame is left, else the statement of the body (or the step of
\* init_importlib) on top of the stack.  An Err goes up through every `?`
\* and every body on the stack to the top-level caller.
Deliver(S, res) ==
    IF S.stack = <<>> THEN [S EXCEPT !.ret = res]
    ELSE IF res.status = "err"
    THEN [S EXCEPT !.stack = <<>>, !.ret = res,
                   !.raised = @ \cup Running_mods(S)]
    ELSE IF Top(S).kind = "init"
    THEN [S EXCEPT !.stack[Len(S.stack)] =
            [@ EXCEPT !.pc = @ + 1,
                      !.importlib = IF Top(S).pc = 1 THEN res.mod ELSE @,
                      !.impmod = IF Top(S).pc = 2 THEN res.mod ELSE @],
                   !.init_done = Append(@, InitOrder[Top(S).pc])]
    ELSE [S EXCEPT !.stack[Len(S.stack)].pc = @ + 1,
                   !.observed = [importer |-> Top(S).name,
                                 target |-> res.mod.name,
                                 mod |-> res.mod,
                                 keys |-> Module(S, res.mod).keys]]

\* vm.ctx.new_module / a builtin factory: a fresh module object; `name` is
\* its __name__, `file` its __file__ (NoFile: it has none), `path` the
\* file_path import_file was given (NoFile for a factory's module)
NewRef(S, name) == [name |-> name, gen |-> Len(S.heap[name]) + 1]
Alloc(S, name, file, path) ==
    [S EXCEPT !.heap[name] = Append(@, [name |-> name, file |-> file,
                                        path |-> path, keys |-> {}])]

\* sys_modules.set_item(module_name, module)
set_item(S, name, ref) == [S EXCEPT !.sys_modules[name] = ref]

\* file_path.starts_with("frozen")
starts_with_frozen(path) == Len(path) > 0 /\ path[1] = "frozen"

frozen_label(name) == <<"frozen", " ">> \o name

run_unpublished(S, name, ref, code) ==
    [Note(S, "exec", name) EXCEPT
        !.executed[name] = @ + 1,
        !.stack = Append(@, Frame("module", name, ref, code))]

\* import_file up to the call of run_code_obj: the module is stored in the
\* cache, then its body is entered
publish_then_run(S, name, ref, code) ==
    LET S1 == set_item(S, name, ref)
        S2 == Note(Note(S1, "register", name), "exec", name)
    IN  [S2 EXCEPT !.executed[name] = @ + 1,
                   !.stack = Append(@, Frame("module", name, ref, code))]

\* import_file that stores the module in the cache before it compiles
import_file_publish_first(S, module_name, file_path, content) ==
    LET S0 == Note(S, "compile", module_name)
        ref == NewRef(S0, module_name)
        file == IF ~starts_with_frozen(file_path) THEN file_path ELSE NoFile
        S1 == Alloc(S0, module_name, file, file_path)
    IN  IF content.kind # "source"
        THEN Deliver(set_item(S1, module_name, ref), Err("SyntaxError", <<>>))
        ELSE publish_then_run(S1, module_name, ref, content.code)

import_file(S, module_name, file_path, content) ==
    LET S0 == Note(S, "compile", module_name)
    IN  IF content.kind # "source"
        THEN Deliver(S0, Err("SyntaxError", <<>>))
        ELSE LET ref == NewRef(S0, module_name)
                 file == IF ~starts_with_frozen(file_path) THEN file_path ELSE NoFile
             IN  publish_then_run(Alloc(S0, module_name, file, file_path), module_name,
                                  ref,
                                  content.code)

import_frozen(S, module_name) ==
    IF module_name \in DOMAIN frozen
    THEN import_file(S, module_name, frozen_label(module_name), frozen[module_name])
    ELSE Deliver(S, Err("ImportError", <<"Cannot import frozen module ">> \o module_name))

import_builtin(S, module_name) ==
    IF module_name \in stdlib_inits
    THEN LET ref == NewRef(S, module_name)
             S1 == Note(Alloc(S, module_name, NoFile, NoFile), "factory", module_name)
         IN  Deliver(Note(set_item(S1, module_name, ref), "register", module_name),
                     Ok(ref))
    ELSE Deliver(S, Err("ImportError", <<"Cannot import bultin module ">> \o module_name))

never_cached(S, module_name) == FALSE

\* sys_modules.get_item(module_name) is Ok
cached(S, module_name) == S.sys_modules[module_name] # NoMod

load_from_files_read_error_not_found(S, current_path, module_name) ==
    LET r == find_source(fs, sys_path, current_path, module_name)
        S1 == Note(S, "find_source", module_name)
    IN  IF ~r.ok THEN Deliver(S1, Err("ModuleNotFoundError", r.msg))
        ELSE IF fs[r.path].kind = "unreadable"
        THEN Deliver(Note(S1, "read", module_name),
                     Err("ModuleNotFoundError", not_found_message(module_name)))
        ELSE import_file(Note(S1, "read", module_name), module_name, r.path,
                         fs[r.path])

\* the last branch of import_module: find_source, read_file, import_file
load_from_files(S, current_path, module_name) ==
    LET r == find_source(fs, sys_path, current_path, module_name)
        S1 == Note(S, "find_source", module_name)
    IN  IF ~r.ok THEN Deliver(S1, Err("ModuleNotFoundError", r.msg))
        ELSE IF fs[r.path].kind = "unreadable"
        THEN Deliver(Note(S1, "read", module_name), Err("ImportError", <<"io">>))
        ELSE import_file(Note(S1, "read", module_name), module_name, r.path,
                         fs[r.path])

import_module_files_first(S, current_path, module_name) ==
    IF cached(S, module_name)
    THEN Deliver(S, Ok(S.sys_modules[module_name]))
    ELSE IF find_source(fs, sys_path, current_path, module_name).ok
    THEN load_from_files(S, current_path, module_name)
    ELSE IF module_name \in DOMAIN frozen
    THEN import_frozen(S, module_name)
    ELSE IF module_name \in stdlib_inits
    THEN import_builtin(S, module_name)
    ELSE load_from_files(S, current_path, module_name)

import_module(S, current_path, module_name) ==
    IF cached(S, module_name)
    THEN Deliver(S, Ok(S.sys_modules[module_name]))
    ELSE IF module_name \in DOMAIN frozen
    THEN import_frozen(S, module_name)
    ELSE IF module_name \in stdlib_inits
    THEN import_builtin(S, module_name)
    ELSE load_from_files(S, current_path, module_name)

(***************************************************************************)
(* Operations.  A top-level call is made when no call is in progress; the  *)
(* interpreter then runs the bodies on the stack one statement at a time.  *)
(***************************************************************************)
Request(op, name, current_path) ==
    [op |-> op, name |-> name, current_path |-> current_path]
NoRequest == Request("none", <<>>, <<>>)

\* the per-step records start empty
Quiet(S) == [S EXCEPT !.events = {}, !.entry = NoRequest, !.observed = NoObs]

\* a request made by running code
Begin(S, op, name, current_path) ==
    [Quiet(S) EXCEPT !.entry = Request(op, name, current_path)]

\* a call made by the embedder
BeginCall(S, op, name, current_path) ==
    [Begin(S, op, name, current_path) EXCEPT
        !.ret = Running,
        !.init_done = <<>>,
        !.call = [op |-> op, name |-> name,
                  repeat |-> S.call.op = op /\ S.call.name = name
                             /\ S.ret.status = "ok",
                  retry |-> S.call.op = op /\ S.call.name = name
                            /\ S.ret.status = "err"]]

CurDirs == {DirC}

Executing == stack # <<>> /\ Top(Cur).kind = "module"
AtStmt(op) ==
    /\ Executing
    /\ Top(Cur).pc <= Len(Top(Cur).code)
    /\ Top(Cur).code[Top(Cur).pc].op = op

\* import_module called by the embedder
CallImportModule(current_path, name) ==
    /\ stack = <<>>
    /\ Commit(import_module(BeginCall(Cur, "import_module", name, current_path),
                            current_path, name))
    /\ UNCHANGED <<fs, sys_path, frozen, found, shellVars, proc>>

\* a body binds a name in its namespace
StepSet ==
    /\ AtStmt("set")
    /\ LET f == Top(Cur)
       IN  Commit([Quiet(Cur) EXCEPT !.heap[f.mod.name][f.mod.gen].keys =
                                 @ \cup {f.code[f.pc].key},
                              !.stack[Len(stack)].pc = @ + 1])
    /\ UNCHANGED <<fs, sys_path, frozen, found, shellVars, proc>>

\* a body's import statement reaches import_module
StepImport(current_path) ==
    /\ AtStmt("import")
    /\ Len(stack) < MaxDepth
    /\ LET target == Top(Cur).code[Top(Cur).pc].target
       IN  Commit(import_module(Begin(Cur, "import_module", target, current_path),
                                current_path, target))
    /\ UNCHANGED <<fs, sys_path, frozen, found, shellVars, proc>>

StepRaiseRollback ==
    /\ AtStmt("raise")
    /\ Commit([Deliver(Quiet(Cur), Err("Exception", <<>>)) EXCEPT
                  !.sys_modules[Top(Cur).name] = NoMod])
    /\ UNCHANGED <<fs, sys_path, frozen, found, shellVars, proc>>

\* a body raises: run_code_obj returns Err, import_file returns it with `?`
StepRaise ==
    /\ AtStmt("raise")
    /\ Commit(Deliver(Quiet(Cur), Err("Exception", <<>>)))
    /\ UNCHANGED <<fs, sys_path, frozen, found, shellVars, proc>>

\* a body ends: run_code_obj returns Ok, import_file returns Ok(module)
StepReturn ==
    /\ Executing
    /\ Top(Cur).pc > Len(Top(Cur).code)
    /\ Commit(Deliver(Pop(Quiet(Cur)), Ok(Top(Cur).mod)))
    /\ UNCHANGED <<fs, sys_path, frozen, found, shellVars, proc>>

\* vm.get_attribute(module, key) is Ok
has_attribute(S, ref, key) == key \in Module(S, ref).keys

\* one step of init_importlib; `invoked` is whether the callable it invokes
\* returns Ok
init_importlib_step(S, invoked) ==
    LET f == Top(S)
        S1 == Begin(S, "init_importlib", InitTarget[f.pc], <<>>)
        done == [S1 EXCEPT !.init_done = Append(@, InitOrder[f.pc])]
    IN  CASE f.pc = 1 -> import_frozen(S1, FrozenImportlib)
          [] f.pc = 2 -> import_builtin(S1, Imp)
          [] f.pc = 3 ->
                IF ~has_attribute(S1, f.importlib, "_install")
                THEN Deliver(S1, Err("AttributeError", <<"_install">>))
                ELSE IF ~invoked THEN Deliver(S1, Err("Exception", <<>>))
                ELSE [done EXCEPT !.stack[Len(S.stack)].pc = 4]
          [] f.pc = 4 ->
                IF ~has_attribute(S1, f.importlib, "__import__")
                THEN Deliver(S1, Err("AttributeError", <<"__import__">>))
                ELSE [done EXCEPT !.import_func = "__import__",
                                  !.stack[Len(S.stack)].pc = 5]
          [] OTHER ->
                IF ~has_attribute(S1, f.importlib, "_install_external_importers")
                THEN Deliver(S1, Err("AttributeError",
                                          <<"_install_external_importers">>))
                ELSE IF ~invoked THEN Deliver(S1, Err("Exception", <<>>))
                ELSE [Pop(done) EXCEPT !.ret = Ok(NoMod)]

InitImportlibStep(invoked) ==
    /\ stack # <<>>
    /\ Top(Cur).kind = "init"
    /\ Commit(init_importlib_step(Quiet(Cur), invoked))
    /\ UNCHANGED <<fs, sys_path, frozen, found, shellVars, proc>>

CallInitImportlib ==
    /\ stack = <<>>
    /\ Len(heap[FrozenImportlib]) < MaxMods
    /\ Len(heap[Imp]) < MaxMods
    /\ Commit([BeginCall(Cur, "init_importlib", <<>>, <<>>) EXCEPT
                  !.stack = <<Frame("init", <<"init_importlib">>, NoMod, <<>>)>>])
    /\ UNCHANGED <<fs, sys_path, frozen, found, shellVars, proc>>

CallImportFrozen(name) ==
    /\ stack = <<>>
    /\ Len(heap[name]) < MaxMods
    /\ Commit(import_frozen(BeginCall(Cur, "import_frozen", name, <<>>), name))
    /\ UNCHANGED <<fs, sys_path, frozen, found, shellVars, proc>>

CallImportBuiltin(name) ==
    /\ stack = <<>>
    /\ Len(heap[name]) < MaxMods
    /\ Commit(import_builtin(BeginCall(Cur, "import_builtin", name, <<>>), name))
    /\ UNCHANGED <<fs, sys_path, frozen, found, shellVars, proc>>

CallImportFile(name, path, content) ==
    /\ stack = <<>>
    /\ Len(heap[name]) < MaxMods
    /\ Commit(import_file(BeginCall(Cur, "import_file", name, <<>>),
                          name, path, content))
    /\ UNCHANGED <<fs, sys_path, frozen, found, shellVars, proc>>

(***************************************************************************)
(* Initial states.                                                         *)
(***************************************************************************)
NoTurn == [event |-> "none", line |-> <<>>, compiled |-> <<>>,
           outcome |-> "", ran |-> <<>>, printed |-> <<>>]

ShellIdle ==
    /\ input = <<>>
    /\ continuing = FALSE
    /\ shell = "off"
    /\ history = <<>>
    /\ scope_us = "unset"
    /\ attempt = NoTurn

NoScript == [arg |-> <<>>, file |-> <<>>, result |-> "none", exc |-> "",
             ran |-> <<>>, file_attr |-> <<>>, keys |-> {}]
NoProc == [pc |-> "start", alive |-> TRUE, exit_code |-> 0, printed |-> <<>>,
           mode |-> "none", script |-> NoScript]

NoFound == [current_path |-> <<>>, name |-> <<>>, ok |-> FALSE, path |-> <<>>,
            msg |-> <<>>]

VmFresh ==
    /\ sys_modules = [n \in Names |-> NoMod]
    /\ heap = [n \in Names |-> <<>>]
    /\ stack = <<>>
    /\ ret = NoRet
    /\ observed = NoObs
    /\ events = {}
    /\ executed = [n \in Names |-> 0]
    /\ import_func = "none"
    /\ init_done = <<>>
    /\ entry = NoRequest
    /\ call = [op |-> "none", name |-> <<>>, repeat |-> FALSE, retry |-> FALSE]
    /\ raised = {}

\* a: every body, ending in a raise or not, or a file that does not
\* compile or cannot be read; b: every body that ends normally
ContentsA ==
    {Source(b) : b \in Bodies({"set", "a", "b"}, BOOLEAN)}
    \cup {SyntaxErr, Unreadable}
ContentsB == {Source(b) : b \in Bodies({"set", "a", "f"}, {FALSE})}

\* a file for a module, present or not
MaybeFile(path, contents) == {{}} \cup {{<<path, c>>} : c \in contents}

\* files hiding behind the frozen module's name
Shadows ==
    {{},
     {<<FileOf(DirC, FrozenImportlib, 1), Source(<<SetStmt("k1")>>)>>},
     {<<FileOf(DirP, FrozenImportlib, 2), Source(<<SetStmt("k1")>>)>>}}

\* the modules a and b on sys.path with every body, or files behind the
\* frozen module's name
ImportWorlds ==
    {FsOf(fa \cup fb) :
        fa \in MaybeFile(FileOf(DirP, NameA, 1), ContentsA),
        fb \in MaybeFile(FileOf(DirP, NameB, 1), ContentsB)}
    \cup
    {FsOf(sh \cup {<<FileOf(DirP, NameA, 1), Source(<<SetStmt("k1")>>)>>}) :
        sh \in Shadows}

Init ==
    /\ fs \in ImportWorlds
    /\ sys_path = <<DirP>>
    /\ frozen = [n \in {FrozenImportlib} |-> Source(FrozenBody)]
    /\ VmFresh
    /\ found = NoFound
    /\ proc = NoProc
    /\ ShellIdle

Step ==
    \/ StepSet
    \/ \E cp \in CurDirs : StepImport(cp)
    \/ StepRaise
    \/ StepReturn

Next ==
    \/ \E cp \in CurDirs, n \in Names : CallImportModule(cp, n)
    \/ Step

Spec == Init /\ [][Next]_vars

\* the loaders called directly by an embedder, and init_importlib
PubWorlds ==
    {FsOf(sh \cup {<<FileOf(DirP, NameA, 1), Source(b)>>}) :
        sh \in Shadows,
        b \in {<<SetStmt("k1")>>, <<SetStmt("k1"), ImportStmt(NameB)>>,
               <<SetStmt("k1"), RaiseStmt>>}}

InitPub ==
    /\ fs \in PubWorlds
    /\ sys_path = <<DirP>>
    /\ frozen \in {[n \in {FrozenImportlib} |-> src] : src \in FrozenSources}
    /\ VmFresh
    /\ found = NoFound
    /\ proc = NoProc
    /\ ShellIdle

DirectSources == {Source(<<SetStmt("k1")>>), SyntaxErr}

NextPub ==
    \/ \E cp \in CurDirs, n \in Names : CallImportModule(cp, n)
    \/ \E n \in {FrozenImportlib, NameA} : CallImportFrozen(n)
    \/ \E n \in {Imp, NameA} : CallImportBuiltin(n)
    \/ \E n \in {NameA, NameB}, c \in DirectSources :
          CallImportFile(n, FileOf(DirC, n, 1), c)
    \/ CallInitImportlib
    \/ \E invoked \in BOOLEAN : InitImportlibStep(invoked)
    \/ Step

SpecPub == InitPub /\ [][NextPub]_vars

\* import_module with the current directory at "c" or at a directory named
\* "frozen", sources that do not read or do not compile, a frozen source
\* that does not compile, and a file with the name of the builtin module
LoadDirs == {DirC, DirF}
LoadContents ==
    {Source(<<SetStmt("k1")>>), Source(<<SetStmt("k1"), ImportStmt(NameB)>>),
     Source(<<SetStmt("k1"), RaiseStmt>>), SyntaxErr, Unreadable}
LoadWorlds ==
    {FsOf(fa \cup fb \cup {<<FileOf(DirP, Imp, 1), Source(<<SetStmt("k1")>>)>>}) :
        fa \in MaybeFile(FileOf(DirF, NameA, 1), LoadContents)
                \cup MaybeFile(FileOf(DirP, NameA, 2), LoadContents),
        fb \in MaybeFile(FileOf(DirP, NameB, 1),
                         {Source(<<SetStmt("k1")>>), SyntaxErr})}

InitLoad ==
    /\ fs \in LoadWorlds
    /\ sys_path = <<DirP>>
    /\ frozen \in {[n \in {FrozenImportlib} |-> src] :
                      src \in {Source(<<SetStmt("_install")>>), SyntaxErr}}
    /\ VmFresh
    /\ found = NoFound
    /\ proc = NoProc
    /\ ShellIdle

NextLoad ==
    \/ \E cp \in LoadDirs, n \in {NameA, NameB, Imp, FrozenImportlib} :
          CallImportModule(cp, n)
    \/ \E c \in DirectSources,
          path \in {FileOf(DirF, NameA, 1), frozen_label(NameA)} :
          CallImportFile(NameA, path, c)
    \/ StepSet
    \/ \E cp \in LoadDirs : StepImport(cp)
    \/ StepRaise
    \/ StepReturn

SpecLoad == InitLoad /\ [][NextLoad]_vars

(***************************************************************************)
(* find_source on its own: every placement of up to MaxFiles files.        *)
(***************************************************************************)
FindDirs == {DirC, DirP, DirF}
FindNames == {NameA, NameD}
FindCandidates ==
    {FileOf(d, n, sfx) : d \in FindDirs, n \in FindNames, sfx \in {1, 2}}
FindWorlds ==
    {FsOf({<<p, Source(<<>>)>> : p \in ps}) :
        ps \in {q \in SUBSET FindCandidates : Cardinality(q) <= MaxFiles}}
SysPaths == {<<>>, <<DirP>>, <<DirP, DirF>>, <<DirF, DirP>>}

InitFind ==
    /\ fs \in FindWorlds
    /\ sys_path \in SysPaths
    /\ frozen = [n \in {FrozenImportlib} |-> Source(FrozenBody)]
    /\ VmFresh
    /\ found = NoFound
    /\ proc = NoProc
    /\ ShellIdle

CallFindSource(current_path, name) ==
    /\ LET r == find_source(fs, sys_path, current_path, name)
       IN  found' = [current_path |-> current_path, name |-> name, ok |-> r.ok,
                     path |-> r.path, msg |-> r.msg]
    /\ UNCHANGED <<importVars, shellVars, proc>>

NextFind == \E cp \in {DirC, DirF}, n \in FindNames : CallFindSource(cp, n)

SpecFind == InitFind /\ [][NextFind]_vars

(***************************************************************************)
(* The interactive shell (run_shell, shell_exec).  A line is a sequence of *)
(* characters; the compiler and the interpreter are outside this code, so  *)
(* what they make of a source is an input of the turn: "eof" (the parser   *)
(* reached the end of the input), "syntax" (any other compile error),      *)
(* "raise" (the code raised), "None" or a value (the code returned it).    *)
(***************************************************************************)
Lines == {<<>>, <<"x">>, <<"x", " ">>, <<" ">>}
Values == {"v1", "v2"}
Outcomes == {"eof", "syntax", "raise", "None"} \cup Values

\* str::trim_end
RECURSIVE trim_end(_)
trim_end(line) ==
    IF line # <<>> /\ line[Len(line)] = " "
    THEN trim_end(SubSeq(line, 1, Len(line) - 1))
    ELSE line

\* str::is_empty
is_empty(line) == Len(line) = 0

Sh ==
    [input |-> input, continuing |-> continuing, history |-> history,
     scope_us |-> scope_us, attempt |-> attempt]

CommitShell(T) ==
    /\ input' = T.input
    /\ continuing' = T.continuing
    /\ history' = T.history
    /\ scope_us' = T.scope_us
    /\ attempt' = T.attempt

\* vm.run_code_obj in shell_exec: the compiled source is executed
run_code_obj(T, source) == [T EXCEPT !.attempt.ran = Append(@, source)]

\* shell_exec that also keeps None as "_"
shell_exec_binds_none(T, source, outcome) ==
    LET T1 == [T EXCEPT !.attempt.compiled = Append(@, source),
                        !.attempt.outcome = outcome]
    IN  CASE outcome \in Values \cup {"None"} ->
                [state |-> [run_code_obj(T1, source) EXCEPT !.scope_us = outcome],
                 result |-> "ok"]
          [] outcome = "raise" ->
                [state |-> [run_code_obj(T1, source) EXCEPT
                               !.attempt.printed = Append(@, "exception")],
                 result |-> "ok"]
          [] outcome = "eof" -> [state |-> T1, result |-> "eof"]
          [] OTHER ->
                [state |-> [T1 EXCEPT !.attempt.printed = Append(@, "syntax error")],
                 result |-> "err"]

\* shell_exec that prints nothing for a syntax error
shell_exec_silent(T, source, outcome) ==
    LET T1 == [T EXCEPT !.attempt.compiled = Append(@, source),
                        !.attempt.outcome = outcome]
    IN  CASE outcome \in Values ->
                [state |-> [run_code_obj(T1, source) EXCEPT !.scope_us = outcome],
                 result |-> "ok"]
          [] outcome = "None" -> [state |-> run_code_obj(T1, source), result |-> "ok"]
          [] outcome = "raise" ->
                [state |-> [run_code_obj(T1, source) EXCEPT
                               !.attempt.printed = Append(@, "exception")],
                 result |-> "ok"]
          [] outcome = "eof" -> [state |-> T1, result |-> "eof"]
          [] OTHER -> [state |-> T1, result |-> "err"]

\* shell_exec: compile the source, run it, keep a value other than None as
\* "_", print an exception or a syntax error; `result` is what it returns
shell_exec(T, source, outcome) ==
    LET T1 == [T EXCEPT !.attempt.compiled = Append(@, source),
                        !.attempt.outcome = outcome]
    IN  CASE outcome \in Values ->
                [state |-> [run_code_obj(T1, source) EXCEPT !.scope_us = outcome],
                 result |-> "ok"]
          [] outcome = "None" -> [state |-> run_code_obj(T1, source), result |-> "ok"]
          [] outcome = "raise" ->
                [state |-> [run_code_obj(T1, source) EXCEPT
                               !.attempt.printed = Append(@, "exception")],
                 result |-> "ok"]
          [] outcome = "eof" -> [state |-> T1, result |-> "eof"]
          [] OTHER ->
                [state |-> [T1 EXCEPT !.attempt.printed = Append(@, "syntax error")],
                 result |-> "err"]

\* a match in run_shell that goes on with the buffer after any compile error
after_exec_any_error(r) ==
    IF r.result # "ok"
    THEN [r.state EXCEPT !.continuing = TRUE]
    ELSE [r.state EXCEPT !.input = <<>>]

\* the match on shell_exec's result in run_shell
after_exec(r) ==
    IF r.result = "eof"
    THEN [r.state EXCEPT !.continuing = TRUE]
    ELSE [r.state EXCEPT !.input = <<>>]

on_line_always_compiles(T, line, outcome) ==
    LET T1 == [T EXCEPT !.attempt = [NoTurn EXCEPT !.event = "line", !.line = line],
                        !.input = @ \o line \o <<"\n">>,
                        !.history = Append(@, trim_end(line))]
    IN  after_exec(shell_exec([T1 EXCEPT !.continuing = FALSE], T1.input, outcome))

\* the Ok(line) arm of the loop of run_shell
on_line(T, line, outcome) ==
    LET T1 == [T EXCEPT !.attempt = [NoTurn EXCEPT !.event = "line", !.line = line],
                        !.input = @ \o line \o <<"\n">>,
                        !.history = Append(@, trim_end(line))]
    IN  IF T1.continuing /\ ~is_empty(line)
        THEN T1
        ELSE after_exec(shell_exec([T1 EXCEPT !.continuing = FALSE], T1.input,
                                   outcome))

\* the Err(ReadlineError::Interrupted) arm
on_interrupt(T) ==
    [T EXCEPT !.attempt = [NoTurn EXCEPT !.event = "interrupt",
                                         !.printed = <<"^C">>],
              !.continuing = FALSE]

StartShell ==
    /\ shell = "off"
    /\ shell' = "reading"
    /\ CommitShell([Sh EXCEPT !.input = <<>>, !.continuing = FALSE,
                              !.scope_us = "unset",
                              !.attempt = [NoTurn EXCEPT !.event = "start"]])
    /\ UNCHANGED <<importVars, found, proc>>

ReadLine(line, outcome) ==
    /\ shell = "reading"
    /\ Len(history) < MaxLines
    /\ CommitShell(on_line(Sh, line, outcome))
    /\ UNCHANGED <<shell, importVars, found, proc>>

Interrupted ==
    /\ shell = "reading"
    /\ CommitShell(on_interrupt(Sh))
    /\ UNCHANGED <<shell, importVars, found, proc>>

\* Err(ReadlineError::Eof): the loop ends, the history is saved
EndOfInput ==
    /\ shell = "reading"
    /\ shell' = "exited"
    /\ CommitShell([Sh EXCEPT !.attempt = [NoTurn EXCEPT !.event = "eof"]])
    /\ UNCHANGED <<importVars, found, proc>>

\* any other readline error: it is printed and the loop ends
ReadError ==
    /\ shell = "reading"
    /\ shell' = "exited"
    /\ CommitShell([Sh EXCEPT !.attempt = [NoTurn EXCEPT !.event = "error",
                                                         !.printed = <<"Error">>]])
    /\ UNCHANGED <<importVars, found, proc>>

InitShell ==
    /\ fs = FsOf({})
    /\ sys_path = <<DirP>>
    /\ frozen = [n \in {FrozenImportlib} |-> Source(FrozenBody)]
    /\ VmFresh
    /\ found = NoFound
    /\ proc = NoProc
    /\ ShellIdle

NextShell ==
    \/ StartShell
    \/ \E line \in Lines, outcome \in Outcomes : ReadLine(line, outcome)
    \/ Interrupted
    \/ EndOfInput
    \/ ReadError

SpecShell == InitShell /\ [][NextShell]_vars

(***************************************************************************)
(* run_script.  A directory is a path some file lies under.  The body of   *)
(* a script is run in one step; it binds names and may raise.              *)
(***************************************************************************)
MainPy == <<"__main__", ".py">>
DirD == <<"p", "/", "d">>

\* Path::is_file, Path::is_dir, Path::join, Path::parent
is_file(files, p) == p \in DOMAIN files
is_dir(files, p) ==
    /\ p # <<>>
    /\ \E f \in DOMAIN files :
          Len(f) > Len(p) + 1 /\ SubSeq(f, 1, Len(p)) = p /\ f[Len(p) + 1] = "/"
join(p, rel) == push(p, rel)
parent(p) ==
    LET seps == {i \in DOMAIN p : p[i] = "/"}
    IN  IF seps = {} THEN <<>>
        ELSE SubSeq(p, 1, (CHOOSE i \in seps : \A j \in seps : j <= i) - 1)

\* process::exit(1) after a message
exit(P, message) ==
    [P EXCEPT !.alive = FALSE, !.exit_code = 1, !.printed = Append(@, message)]

\* _run_string: compile, a scope with __file__, run_code_obj
run_string(content, source_path) ==
    IF content.kind # "source"
    THEN [NoScript EXCEPT !.result = "err", !.exc = "SyntaxError"]
    ELSE LET code == content.code
             stops == {i \in DOMAIN code : code[i].op = "raise"}
             last == IF stops = {} THEN Len(code)
                     ELSE (CHOOSE i \in stops : \A j \in stops : i <= j) - 1
         IN  [NoScript EXCEPT
                !.result = IF stops = {} THEN "ok" ELSE "err",
                !.exc = IF stops = {} THEN "" ELSE "Exception",
                !.ran = <<source_path>>,
                !.file_attr = source_path,
                !.keys = {code[i].key : i \in {j \in 1..last : code[j].op = "set"}}]

resolve_script_files_only(files, script_file) ==
    IF is_file(files, script_file) THEN [ok |-> TRUE, path |-> script_file, msg |-> ""]
    ELSE [ok |-> FALSE, path |-> <<>>, msg |-> "can't open file"]

\* run_script, the choice of file_path: the file itself, or __main__.py of
\* the directory
resolve_script(files, script_file) ==
    IF is_file(files, script_file) THEN [ok |-> TRUE, path |-> script_file, msg |-> ""]
    ELSE IF is_dir(files, script_file)
    THEN IF is_file(files, join(script_file, MainPy))
         THEN [ok |-> TRUE, path |-> join(script_file, MainPy), msg |-> ""]
         ELSE [ok |-> FALSE, path |-> <<>>, msg |-> "can't find '__main__' module"]
    ELSE [ok |-> FALSE, path |-> <<>>, msg |-> "can't open file"]

script_dir_not_stored(path_list, file_path) == path_list

\* sys.path.insert(0, dir) with the directory of the file
store_script_dir(path_list, file_path) == <<parent(file_path)>> \o path_list

\* run_script: what it leaves in sys.path and in the process
run_script(files, path_list, P, script_file) ==
    LET r == resolve_script(files, script_file)
        P1 == [P EXCEPT !.script = [NoScript EXCEPT !.arg = script_file,
                                                    !.file = r.path]]
    IN  IF ~r.ok THEN [sys_path |-> path_list, proc |-> exit(P1, r.msg)]
        ELSE IF files[r.path].kind = "unreadable"
        THEN [sys_path |-> store_script_dir(path_list, r.path),
              proc |-> exit(P1, "Failed reading file")]
        ELSE [sys_path |-> store_script_dir(path_list, r.path),
              proc |-> [P1 EXCEPT !.script =
                          [run_string(files[r.path], r.path) EXCEPT
                              !.arg = script_file, !.file = r.path]]]

\* run_script called as test_run_script calls it
RunScript(script_file) ==
    /\ proc.alive
    /\ stack = <<>>
    /\ Len(sys_path) < MaxPath
    /\ LET r == run_script(fs, sys_path, proc, script_file)
       IN  /\ sys_path' = r.sys_path
           /\ proc' = [r.proc EXCEPT !.mode = "script"]
    /\ entry' = Request("run_script", script_file, <<>>)
    /\ events' = {}
    /\ observed' = NoObs
    /\ UNCHANGED <<fs, frozen, sys_modules, heap, stack, ret, executed,
                   import_func, call, raised, init_done, found,
                   shellVars>>

ScriptContents ==
    {Source(<<SetStmt("k1")>>), Source(<<SetStmt("k1"), RaiseStmt, SetStmt("k2")>>),
     SyntaxErr, Unreadable}
ScriptFile == FileOf(DirP, <<"s">>, 1)
ScriptArgs == {ScriptFile, DirD, join(DirD, MainPy), DirP, <<"p", "/", "n">>}
ScriptWorlds ==
    {FsOf(fs1 \cup fm \cup fa) :
        fs1 \in MaybeFile(ScriptFile, ScriptContents),
        fm \in MaybeFile(join(DirD, MainPy), ScriptContents),
        fa \in {{<<FileOf(DirD, NameA, 1), Source(b)>>} :
                    b \in {<<SetStmt("k1")>>, <<ImportStmt(NameB)>>,
                           <<SetStmt("k1"), RaiseStmt>>}}}

InitScript ==
    /\ fs \in ScriptWorlds
    /\ sys_path = <<DirP>>
    /\ frozen = [n \in {FrozenImportlib} |-> Source(FrozenBody)]
    /\ VmFresh
    /\ found = NoFound
    /\ proc = NoProc
    /\ ShellIdle

\* import_module called for a module while the process is alive
ScriptImport(name) == proc.alive /\ CallImportModule(DirC, name)

NextScript ==
    \/ \E arg \in ScriptArgs : RunScript(arg)
    \/ \E n \in {NameA, NameB} : ScriptImport(n)
    \/ StepSet
    \/ StepImport(DirC)
    \/ StepRaise
    \/ StepReturn

SpecScript == InitScript /\ [][NextScript]_vars

(***************************************************************************)
(* main: init_importlib, then the command, the module, the script or the   *)
(* shell; handle_exception after each.  What vm.import returns for -m is   *)
(* an input.                                                               *)
(***************************************************************************)
handle_exception_ignored(P, res) == P

\* handle_exception: an Err is printed and the process exits with status 1
handle_exception(P, res) ==
    IF res.status = "err" THEN exit(P, "exception") ELSE P

\* main after its last handle_exception
finish(P) == [P EXCEPT !.pc = IF P.alive THEN "returned" ELSE "exited"]

\* main up to the call of init_importlib
MainInit ==
    /\ proc.pc = "start"
    /\ stack = <<>>
    /\ Commit([BeginCall(Cur, "init_importlib", <<>>, <<>>) EXCEPT
                  !.stack = <<Frame("init", <<"init_importlib">>, NoMod, <<>>)>>])
    /\ proc' = [proc EXCEPT !.pc = "init"]
    /\ UNCHANGED <<fs, sys_path, frozen, found, shellVars>>

\* init_importlib has returned
InitReturned == proc.pc = "init" /\ stack = <<>> /\ ret.status \in {"ok", "err"}

\* -c: run_command
MainRunCommand(content) ==
    /\ InitReturned
    /\ LET P1 == handle_exception(proc, ret)
           r == run_string(content, <<"<stdin>">>)
           P2 == [P1 EXCEPT !.mode = "c", !.script = r]
       IN  proc' = IF P1.alive
                   THEN finish(handle_exception(P2, [status |-> r.result]))
                   ELSE finish(P1)
    /\ UNCHANGED <<importVars, found, shellVars>>

\* -m: run_module
MainRunModule(imported) ==
    /\ InitReturned
    /\ LET P1 == handle_exception(proc, ret)
           P2 == [P1 EXCEPT !.mode = "m"]
       IN  proc' = IF P1.alive
                   THEN finish(handle_exception(P2, [status |-> imported]))
                   ELSE finish(P1)
    /\ UNCHANGED <<importVars, found, shellVars>>

\* a script argument: run_script
MainRunScript(script_file) ==
    /\ InitReturned
    /\ LET P1 == handle_exception(proc, ret)
           r == run_script(fs, sys_path, [P1 EXCEPT !.mode = "script"], script_file)
       IN  IF P1.alive
           THEN /\ sys_path' = r.sys_path
                /\ proc' = IF r.proc.alive
                           THEN finish(handle_exception(r.proc,
                                          [status |-> r.proc.script.result]))
                           ELSE finish(r.proc)
           ELSE sys_path' = sys_path /\ proc' = finish(P1)
    /\ UNCHANGED <<fs, frozen, sys_modules, heap, stack, ret, observed, events,
                   executed, import_func, entry, call, raised, init_done, found,
                   shellVars>>

\* no argument: run_shell is entered
MainRunShell ==
    /\ InitReturned
    /\ LET P1 == handle_exception(proc, ret)
       IN  IF P1.alive
           THEN /\ proc' = [P1 EXCEPT !.mode = "shell", !.pc = "shell"]
                /\ shell' = "reading"
                /\ CommitShell([Sh EXCEPT !.input = <<>>, !.continuing = FALSE,
                                          !.scope_us = "unset",
                                          !.attempt = [NoTurn EXCEPT !.event = "start"]])
           ELSE /\ proc' = finish(P1)
                /\ UNCHANGED shellVars
    /\ UNCHANGED <<importVars, found>>

\* run_shell has returned Ok
MainShellReturned ==
    /\ proc.pc = "shell"
    /\ shell = "exited"
    /\ proc' = finish(handle_exception(proc, [status |-> "ok"]))
    /\ UNCHANGED <<importVars, found, shellVars>>

MainFrozen ==
    {[n \in {FrozenImportlib} |-> src] :
        src \in {Source(FrozenBody), Source(<<SetStmt("_install")>>),
                 Source(<<SetStmt("_install"), SetStmt("__import__")>>), SyntaxErr}}
    \cup {[n \in {} |-> SyntaxErr]}
MainWorlds ==
    {FsOf(fa \cup {<<ScriptFile, Source(<<SetStmt("k1")>>)>>}) :
        fa \in MaybeFile(FileOf(DirP, NameA, 1),
                         {Source(<<SetStmt("k1")>>),
                          Source(<<SetStmt("k1"), RaiseStmt>>)})}
MainLines == {<<>>, <<"x">>}
MainOutcomes == {"eof", "syntax", "None"}

InitMain ==
    /\ fs \in MainWorlds
    /\ sys_path = <<DirP>>
    /\ frozen \in MainFrozen
    /\ VmFresh
    /\ found = NoFound
    /\ proc = NoProc
    /\ ShellIdle

NextMain ==
    \/ MainInit
    \/ \E invoked \in BOOLEAN : InitImportlibStep(invoked)
    \/ StepSet
    \/ StepImport(DirC)
    \/ StepRaise
    \/ StepReturn
    \/ \E c \in {Source(<<SetStmt("k1")>>), Source(<<RaiseStmt>>), SyntaxErr} :
          MainRunCommand(c)
    \/ \E imported \in {"ok", "err"} : MainRunModule(imported)
    \/ \E arg \in {ScriptFile, <<"p", "/", "n">>} : MainRunScript(arg)
    \/ MainRunShell
    \/ \E line \in MainLines, outcome \in MainOutcomes : ReadLine(line, outcome)
    \/ Interrupted
    \/ EndOfInput
    \/ ReadError
    \/ MainShellReturned

SpecMain == InitMain /\ [][NextMain]_vars

(***************************************************************************)
(* Properties.                                                             *)
(***************************************************************************)
BeingLoaded(n) ==
    \E i \in DOMAIN stack : stack[i].kind = "module" /\ stack[i].name = n
FrameOf(n) ==
    stack[CHOOSE i \in DOMAIN stack : stack[i].kind = "module" /\ stack[i].name = n]
KeysBefore(f) ==
    {f.code[i].key : i \in {j \in 1..(f.pc - 1) : f.code[j].op = "set"}}
ImportTarget == Top(Cur).code[Top(Cur).pc].target

\* this step is a request for n through import_module
Requested(n) ==
    /\ stack = <<>> \/ AtStmt("import")
    /\ entry'.op = "import_module"
    /\ entry'.name = n

\* this step hands module m to the requester: to the top-level caller as
\* the call's result, to a body as the value its import statement binds
Delivered(m) ==
    IF stack = <<>>
    THEN ret' = Ok(m) /\ stack' = <<>>
    ELSE /\ observed'.mod = m
         /\ stack' = [stack EXCEPT ![Len(stack)].pc = @ + 1]

\* C1: every module whose body is running is the one registered under its
\* name, and when a body imports a module whose body is still running (a
\* cycle, or itself) the request is answered from the cache at once with
\* that module, holding exactly the keys its body had set before the
\* import statement it is waiting at.
C1_CycleSeesPartialModule ==
    [][/\ \A i \in DOMAIN stack' :
             stack'[i].kind = "module"
                => sys_modules'[stack'[i].name] = stack'[i].mod
       /\ (AtStmt("import") /\ BeingLoaded(ImportTarget))
             => /\ Delivered(FrameOf(ImportTarget).mod)
                /\ observed'.importer = Top(Cur).name
                /\ observed'.target = ImportTarget
                /\ observed'.keys = KeysBefore(FrameOf(ImportTarget))
                /\ heap' = heap
                /\ executed' = executed]_vars

C1_Witness ==
    /\ Len(stack) = 2
    /\ stack[1].name = NameA
    /\ stack[2].name = NameB
    /\ observed.importer = NameB
    /\ observed.target = NameA
    /\ observed.mod = stack[1].mod
    /\ observed.keys = {"k1"}
    /\ stack[1].code[stack[1].pc] = ImportStmt(NameB)

C2_NoReentrantLoad ==
    \A i, j \in DOMAIN stack : i # j => stack[i].name # stack[j].name

\* the work a call can still do: the statements left in the bodies on the
\* stack, and a whole body for every module whose body has not run yet
RECURSIVE C2_Left(_)
C2_Left(stk) ==
    IF stk = <<>> THEN 0
    ELSE (Len(stk[1].code) - stk[1].pc + 2) + C2_Left(Tail(stk))
C2_Longest ==
    LET lens == {Len(fs[p].code) : p \in DOMAIN fs}
                \cup {Len(frozen[n].code) : n \in DOMAIN frozen}
    IN  CHOOSE l \in lens : \A k \in lens : k <= l
C2_Measure ==
    (C2_Longest + 2) * Cardinality({n \in Names : executed[n] = 0})
        + C2_Left(stack)

\* the body on top of the stack can take its next step: the stack is not
\* at the model's depth bound when that step is an import
C2_CanStep ==
    /\ Top(Cur).kind = "module"
    /\ AtStmt("import") => Len(stack) < MaxDepth

\* C2: whatever the bodies import, no module starts loading while it is
\* being loaded, no body is executed twice, and every top-level call
\* returns: while a call runs a step is always possible, and every step
\* strictly lowers a measure that is never negative.
C2_ImportTerminates ==
    /\ [](/\ C2_NoReentrantLoad
          /\ \A n \in Names : executed[n] <= 1
          /\ C2_Measure >= 0
          /\ stack # <<>> => C2_CanStep)
    /\ [][stack # <<>> => C2_Measure' < C2_Measure]_vars

\* a, b and the frozen module import each other in a ring, and the ring closes
C2_Witness ==
    /\ Len(stack) = 3
    /\ stack[1].name = NameA
    /\ stack[2].name = NameB
    /\ stack[3].name = FrozenImportlib
    /\ observed.importer = FrozenImportlib
    /\ observed.target = NameA

\* C3: an import_module call for n made right after one for n that returned
\* a module returns that same module at once and runs no body; no body
\* runs more than once.
C3_SecondCallSameModule ==
    /\ [][(/\ stack = <<>>
           /\ ret.status = "ok"
           /\ call.op = "import_module"
           /\ call'.op = "import_module"
           /\ call'.name = call.name
           /\ call'.repeat)
             => /\ ret' = Ok(ret.mod)
                /\ stack' = <<>>
                /\ executed' = executed]_vars
    /\ [](\A n \in Names : executed[n] <= 1)

C3_Witness ==
    /\ call.repeat
    /\ call.op = "import_module"
    /\ call.name = NameA
    /\ ret.status = "ok"
    /\ ret.mod = sys_modules[NameA]
    /\ executed[NameA] = 1

DirectLoaders == {"import_frozen", "import_builtin", "import_file", "init_importlib"}

\* C4 as stated: no operation replaces an existing cache entry.
C4_NoEntryReplaced ==
    [][\A n \in Names :
          sys_modules[n] # NoMod => sys_modules'[n] = sys_modules[n]]_vars

\* C4, amended: a lookup of a cached name through import_module returns the
\* cached module and leaves the cache alone; an existing entry changes only
\* in a step of import_frozen, import_builtin or import_file called directly
\* (or by init_importlib) for that name, never in a step of import_module.
C4_OnlyDirectLoadersReplace ==
    [][\A n \in Names :
          /\ (sys_modules[n] # NoMod /\ sys_modules'[n] # sys_modules[n])
                => entry'.op \in DirectLoaders /\ entry'.name = n
          /\ (Requested(n) /\ sys_modules[n] # NoMod)
                => Delivered(sys_modules[n]) /\ sys_modules' = sys_modules]_vars

C4_Witness ==
    \E n \in Names :
        /\ sys_modules[n].gen = 2
        /\ entry.op = "import_module"
        /\ entry.name = n
        /\ ret = Ok(sys_modules[n])

\* C5: a raise in a body ends the call with that exception and leaves every
\* module whose body was running registered; a later import_module request
\* for such a module returns it without compiling or executing anything.
C5_BrokenModuleStaysCached ==
    [][/\ AtStmt("raise")
             => /\ ret' = Err("Exception", <<>>)
                /\ stack' = <<>>
                /\ \A i \in DOMAIN stack :
                      sys_modules'[stack[i].name] = stack[i].mod
       /\ \A n \in Names :
             (Requested(n) /\ sys_modules[n] \in raised)
                => /\ Delivered(sys_modules[n])
                   /\ events' = {}
                   /\ executed' = executed
                   /\ heap' = heap
                   /\ sys_modules' = sys_modules]_vars

C5_Witness ==
    /\ stack = <<>>
    /\ entry.op = "import_module"
    /\ entry.name = NameA
    /\ ret = Ok(sys_modules[NameA])
    /\ ret.mod \in raised
    /\ heap[NameA][1].keys = {"k1"}
    /\ executed[NameA] = 1

\* C6: a request for an uncached name of the frozen table compiles the
\* frozen source and runs it as the module's body, without find_source and
\* without reading a file, whatever files exist.
C6_FrozenBeforeFiles ==
    [][\A n \in Names :
          (Requested(n) /\ sys_modules[n] = NoMod /\ n \in DOMAIN frozen)
             => /\ <<"find_source", n>> \notin events'
                /\ <<"read", n>> \notin events'
                /\ <<"compile", n>> \in events'
                /\ IF frozen[n].kind = "source"
                   THEN /\ Len(stack') = Len(stack) + 1
                        /\ stack'[Len(stack')].name = n
                        /\ stack'[Len(stack')].code = frozen[n].code
                        /\ sys_modules'[n] = stack'[Len(stack')].mod
                        /\ heap'[n][sys_modules'[n].gen].file = NoFile
                   ELSE ret'.status = "err" /\ ret'.exc = "SyntaxError"]_vars

C6_Witness ==
    /\ entry.op = "import_module"
    /\ entry.name = FrozenImportlib
    /\ <<"compile", FrozenImportlib>> \in events
    /\ FileOf(entry.current_path, FrozenImportlib, 1) \in DOMAIN fs
    /\ stack # <<>>
    /\ Top(Cur).code = FrozenBody

\* the candidate the claim names: directory i of [current_path] + sys.path,
\* then the name with dots as slashes, then ".py" (1) or "/__init__.py" (2)
C7_Dirs(current_path) == <<current_path>> \o sys_path
C7_Slashed(name) == [i \in DOMAIN name |-> IF name[i] = "." THEN "/" ELSE name[i]]
C7_Candidate(current_path, name, i, sfx) ==
    C7_Dirs(current_path)[i] \o <<"/">> \o C7_Slashed(name)
        \o (IF sfx = 1 THEN <<".py">> ELSE <<"/", "__init__", ".py">>)
C7_Slots(current_path) == (DOMAIN C7_Dirs(current_path)) \X {1, 2}
C7_Earlier(a, b) == a[1] < b[1] \/ (a[1] = b[1] /\ a[2] < b[2])
C7_Present(current_path, name, slot) ==
    C7_Candidate(current_path, name, slot[1], slot[2]) \in DOMAIN fs

\* C7: find_source returns the first existing candidate, directories in the
\* order current_path then sys.path, ".py" before "/__init__.py" within a
\* directory; it fails exactly when no candidate exists.
C7_FirstCandidateWins ==
    found.name # <<>> =>
        LET cp == found.current_path
            present == {sl \in C7_Slots(cp) : C7_Present(cp, found.name, sl)}
        IN  IF present = {} THEN ~found.ok
            ELSE /\ found.ok
                 /\ \E sl \in present :
                       /\ found.path = C7_Candidate(cp, found.name, sl[1], sl[2])
                       /\ \A other \in present : ~C7_Earlier(other, sl)

\* pkg/__init__.py in the current directory wins over pkg.py further on
C7_Witness ==
    /\ found.ok
    /\ found.name = NameD
    /\ Len(sys_path) = 2
    /\ found.path = C7_Candidate(found.current_path, NameD, 1, 2)
    /\ C7_Present(found.current_path, NameD, <<3, 1>>)
    /\ C7_Present(found.current_path, NameD, <<3, 2>>)

C8_NoCandidate(current_path, name) ==
    \A sl \in C7_Slots(current_path) : ~C7_Present(current_path, name, sl)
C8_Contains(msg, name) ==
    \E i \in 1..(Len(msg) - Len(name) + 1) :
        SubSeq(msg, i, i + Len(name) - 1) = name

\* C8: a request for a name that is not cached, not frozen, not builtin and
\* has no candidate file ends the call with ModuleNotFoundError, whose
\* message contains the dotted name as requested.
C8_UnknownModule ==
    [][\A n \in Names :
          (/\ Requested(n)
           /\ sys_modules[n] = NoMod
           /\ n \notin DOMAIN frozen
           /\ n \notin stdlib_inits
           /\ C8_NoCandidate(entry'.current_path, n))
             => /\ ret'.status = "err"
                /\ ret'.exc = "ModuleNotFoundError"
                /\ C8_Contains(ret'.msg, n)
                /\ stack' = <<>>
                /\ sys_modules' = sys_modules]_vars

C8_Witness ==
    /\ call.name = NameD
    /\ entry.name = NameD
    /\ ret.status = "err"
    /\ ret.exc = "ModuleNotFoundError"
    /\ ret.msg = <<"No module named '", "d", ".", "m", "'">>

\* C9 as stated: after an interrupt the session is Idle with an empty
\* input buffer.
C9_InterruptDiscardsBuffer ==
    attempt.event = "interrupt" => ~continuing /\ input = <<>>

\* C10: while Continuing, a non-empty line is appended with a newline, is
\* not compiled and leaves the session Continuing; an empty line has the
\* whole buffer compiled once, and then the session is Idle with an empty
\* buffer unless the input is incomplete again.
C10_ContinuationLines ==
    [][(shell = "reading" /\ continuing /\ attempt'.event = "line")
          => LET line == attempt'.line
             IN  IF line # <<>>
                 THEN /\ input' = input \o line \o <<"\n">>
                      /\ attempt'.compiled = <<>>
                      /\ continuing'
                 ELSE /\ attempt'.compiled = <<input \o <<"\n">>>>
                      /\ IF attempt'.outcome = "eof"
                         THEN continuing' /\ input' = input \o <<"\n">>
                         ELSE ~continuing' /\ input' = <<>>]_vars

\* a two-line block is run by the empty line that follows it
C10_Witness ==
    /\ attempt.event = "line"
    /\ attempt.line = <<>>
    /\ attempt.compiled = <<(<<"x", "\n", " ", "\n", "\n">>)>>
    /\ attempt.outcome = "None"
    /\ ~continuing
    /\ input = <<>>

\* C11: a compile attempt that ends at the end of the input makes the
\* session Continuing, keeps the buffer (the line just read included), runs
\* nothing, prints nothing and leaves "_" alone; the session goes from Idle
\* to Continuing in no other way.
C11_IncompleteInputContinues ==
    [][/\ (shell = "reading" /\ attempt'.event = "line"
            /\ attempt'.compiled # <<>> /\ attempt'.outcome = "eof")
          => /\ continuing'
             /\ input' = input \o attempt'.line \o <<"\n">>
             /\ attempt'.compiled = <<input'>>
             /\ attempt'.ran = <<>>
             /\ attempt'.printed = <<>>
             /\ scope_us' = scope_us
       /\ (~continuing /\ continuing')
          => /\ attempt'.event = "line"
             /\ attempt'.compiled # <<>>
             /\ attempt'.outcome = "eof"]_vars

\* an Idle session has read "x", the compiler wants more
C11_Witness ==
    /\ attempt.event = "line"
    /\ attempt.line = <<"x">>
    /\ attempt.compiled = <<(<<"x", "\n">>)>>
    /\ attempt.outcome = "eof"
    /\ continuing
    /\ input = <<"x", "\n">>
    /\ Len(history) = 1

\* C12: a compile attempt that is not incomplete leaves the buffer empty and
\* the session Idle and still reading; an exception is printed when the code
\* raised, a syntax error when the source did not compile, nothing else.
C12_AttemptEndsIdle ==
    [][(shell = "reading" /\ attempt'.event = "line"
          /\ attempt'.compiled # <<>> /\ attempt'.outcome # "eof")
          => /\ input' = <<>>
             /\ ~continuing'
             /\ shell' = "reading"
             /\ attempt'.printed =
                    CASE attempt'.outcome = "raise" -> <<"exception">>
                      [] attempt'.outcome = "syntax" -> <<"syntax error">>
                      [] OTHER -> <<>>
             /\ attempt'.ran =
                    IF attempt'.outcome = "syntax" THEN <<>> ELSE attempt'.compiled]_vars

\* the third line read is run, raises, and the shell goes on reading
C12_Witness ==
    /\ shell = "reading"
    /\ Len(history) = 3
    /\ attempt.event = "line"
    /\ attempt.outcome = "raise"
    /\ attempt.printed = <<"exception">>
    /\ attempt.compiled = <<(<<"x", "\n">>)>>
    /\ input = <<>>
    /\ ~continuing

\* C13: "_" changes only in a step whose attempt ran and gave a value other
\* than None, and then it is that value; in every other step it keeps the
\* value it had.
C13_UnderscoreOnlyOnValue ==
    [][IF attempt'.event = "line" /\ attempt'.outcome \in Values
       THEN scope_us' = attempt'.outcome /\ attempt'.ran # <<>>
       ELSE scope_us' = scope_us]_vars

\* "_" holds v1 after a later statement that gave None
C13_Witness ==
    /\ scope_us = "v1"
    /\ attempt.event = "line"
    /\ attempt.outcome = "None"
    /\ attempt.ran # <<>>
    /\ Len(history) >= 2

\* C14 as stated: a module made by import_file has the requested name as
\* __name__, and it has no __file__ exactly when the path it was loaded
\* from is the label "frozen <name>"; else __file__ is that path.
C14_FileUnlessFrozenLabel ==
    \A n \in Names : \A g \in DOMAIN heap[n] :
        LET m == heap[n][g]
        IN  m.path # NoFile =>
              /\ m.name = n
              /\ m.file = IF m.path = frozen_label(n) THEN NoFile ELSE m.path

\* C15 as stated: sys.path has the same value after every operation,
\* resolving a module and running a script included.
C15_SysPathNeverChanges == [][sys_path' = sys_path]_vars

\* C15, amended: resolving a module leaves sys.path as it was; run_script,
\* once it has chosen the file to run, inserts the directory of that file
\* at the front of sys.path, and the entry stays there.
C15_OnlyRunScriptStoresDir ==
    [][IF entry'.op = "run_script" /\ proc'.script.file # <<>>
       THEN sys_path' = <<parent(proc'.script.file)>> \o sys_path
       ELSE sys_path' = sys_path]_vars

\* after the script of directory p/d has run, import_module has resolved
\* "a" to p/d/a.py through the stored entry
C15_Witness ==
    /\ sys_path = <<DirD, DirP>>
    /\ proc.script.arg = DirD
    /\ entry.op = "none"
    /\ call.op = "import_module"
    /\ call.name = NameA
    /\ ret.status = "ok"
    /\ Module(Cur, ret.mod).file = FileOf(DirD, NameA, 1)

\* what run_script leaves behind when it is given the file `file`: the
\* directory of the file stored in sys.path and, for a source that reads
\* and compiles, that file run with itself as __file__
C20_RunsFile(file) ==
    /\ proc'.script.file = file
    /\ sys_path' = <<parent(file)>> \o sys_path
    /\ CASE fs[file].kind = "unreadable" ->
               ~proc'.alive /\ proc'.exit_code = 1 /\ proc'.script.ran = <<>>
         [] fs[file].kind = "syntaxerr" ->
               /\ proc'.alive
               /\ proc'.script.result = "err"
               /\ proc'.script.exc = "SyntaxError"
               /\ proc'.script.ran = <<>>
         [] OTHER ->
               /\ proc'.alive
               /\ proc'.script.ran = <<file>>
               /\ proc'.script.file_attr = file
               /\ "k1" \in proc'.script.keys
               /\ proc'.script.result =
                     IF \E i \in DOMAIN fs[file].code : fs[file].code[i].op = "raise"
                     THEN "err" ELSE "ok"

\* C20: run_script given a file runs it; given a directory with __main__.py
\* it does what it does given that __main__.py; given a directory without
\* __main__.py or a path where nothing is, it ends the process with status 1,
\* nothing run and sys.path not changed.
C20_RunScriptResolution ==
    [][entry'.op = "run_script"
          => LET arg == entry'.name
                 main == arg \o <<"/">> \o MainPy
             IN  IF arg \in DOMAIN fs THEN C20_RunsFile(arg)
                 ELSE IF arg \in {DirD, DirP} /\ main \in DOMAIN fs
                 THEN /\ C20_RunsFile(main)
                      /\ LET direct == run_script(fs, sys_path, proc, main)
                         IN  /\ sys_path' = direct.sys_path
                             /\ [proc' EXCEPT !.script.arg = main, !.mode = "none"]
                                   = [direct.proc EXCEPT !.mode = "none"]
                 ELSE /\ ~proc'.alive
                      /\ proc'.exit_code = 1
                      /\ proc'.script.ran = <<>>
                      /\ sys_path' = sys_path]_vars

\* the directory p/d was given, its __main__.py ran and returned Ok
C20_Witness ==
    /\ entry.op = "run_script"
    /\ entry.name = DirD
    /\ proc.alive
    /\ proc.script.file = <<"p", "/", "d", "/", "__main__", ".py">>
    /\ proc.script.ran = <<proc.script.file>>
    /\ proc.script.result = "ok"
    /\ sys_path = <<DirD, DirP>>

\* C16: a step of init_importlib is taken only when exactly the steps
\* before it have returned Ok, in the order import_frozen, import_builtin,
\* _install, __import__, _install_external_importers; after an Err no step
\* of it is taken; vm.import_func changes only in the fourth step, after
\* _install returned Ok; main starts init_importlib once, runs a command, a
\* module, a script or the shell only after all five steps returned Ok, and
\* after a failed init_importlib it exits with status 1 with nothing run.
C16_InitOrderAndFatal ==
    [][/\ proc.alive
       /\ \A k \in 1..5 :
             (/\ stack # <<>> /\ Top(Cur).kind = "init"
              /\ entry'.op = "init_importlib" /\ entry'.name = InitTarget[k])
                => /\ init_done = SubSeq(InitOrder, 1, k - 1)
                   /\ ret.status = "running"
                   /\ proc.pc = "init"
                   /\ (k = 1 => executed[FrozenImportlib] = 0)
       /\ \E k \in 0..5 : init_done' = SubSeq(InitOrder, 1, k)
       /\ import_func' # import_func
             => /\ init_done = SubSeq(InitOrder, 1, 3)
                /\ init_done' = SubSeq(InitOrder, 1, 4)
       /\ (ret.status = "running" /\ ret'.status = "err")
             => stack' = <<>> /\ init_done' = init_done
       /\ proc'.mode # "none" => init_done = InitOrder /\ ret.status = "ok"
       /\ proc.pc = "start" => proc'.pc = "init" /\ stack' # <<>>
       /\ (proc.pc = "init" /\ proc'.pc # "init" /\ ret.status = "err")
             => /\ ~proc'.alive
                /\ proc'.exit_code = 1
                /\ proc'.pc = "exited"
                /\ proc'.mode = "none"
                /\ proc'.script = NoScript
                /\ shell' = "off"
                /\ sys_path' = sys_path]_vars

\* _install raised: the hook was not replaced and main has exited
C16_Witness ==
    /\ ~proc.alive
    /\ proc.exit_code = 1
    /\ proc.mode = "none"
    /\ init_done = <<"import_frozen", "import_builtin">>
    /\ ret.status = "err"
    /\ ret.exc = "Exception"
    /\ import_func = "none"
    /\ sys_modules[FrozenImportlib] # NoMod
    /\ sys_modules[Imp] # NoMod

\* C17: a request through import_module for a name that is not cached: a
\* frozen source that does not compile gives SyntaxError; for a name that is
\* neither frozen nor builtin, a source file that is found and cannot be
\* read gives ImportError with the description of the I/O failure, one that
\* is read and does not compile gives SyntaxError.
C17_ReadAndCompileErrors ==
    [][\A n \in Names :
          (Requested(n) /\ sys_modules[n] = NoMod)
             => LET r == find_source(fs, sys_path, entry'.current_path, n)
                IN  IF n \in DOMAIN frozen
                    THEN frozen[n].kind = "syntaxerr"
                            => ret'.status = "err" /\ ret'.exc = "SyntaxError"
                    ELSE (n \notin stdlib_inits /\ r.ok)
                            => CASE fs[r.path].kind = "unreadable" ->
                                      ret' = Err("ImportError", <<"io">>)
                                 [] fs[r.path].kind = "syntaxerr" ->
                                      ret'.status = "err" /\ ret'.exc = "SyntaxError"
                                 [] OTHER -> ret'.status = "running"]_vars

\* the package file of "a" on sys.path was found and could not be read
C17_Witness ==
    /\ entry.op = "import_module"
    /\ entry.name = NameA
    /\ FileOf(DirP, NameA, 2) \in DOMAIN fs
    /\ fs[FileOf(DirP, NameA, 2)].kind = "unreadable"
    /\ ret = Err("ImportError", <<"io">>)
    /\ sys_modules[NameA] = NoMod

\* C18: a request through import_module for an uncached name that ends
\* with an error in the same step (nothing was found, the file could not be
\* read, the source did not compile: no body was entered) leaves
\* sys.modules and the module objects as they were; and every request for
\* an uncached name that is neither frozen nor builtin searches the files,
\* a request repeated after such a failure included.
C18_FailureLeavesNoEntry ==
    [][\A n \in Names :
          (Requested(n) /\ sys_modules[n] = NoMod)
             => /\ (ret'.status = "err" /\ executed' = executed)
                      => /\ sys_modules' = sys_modules
                         /\ heap' = heap
                         /\ ret'.exc \in {"ModuleNotFoundError", "ImportError",
                                          "SyntaxError"}
                /\ (n \notin DOMAIN frozen /\ n \notin stdlib_inits)
                      => <<"find_source", n>> \in events'
                /\ n \in DOMAIN frozen => <<"compile", n>> \in events']_vars

\* the second call for "a", whose file does not compile, has failed as the
\* first did
C18_Witness ==
    /\ call.op = "import_module"
    /\ call.name = NameA
    /\ call.retry
    /\ ret.status = "err"
    /\ ret.exc = "SyntaxError"
    /\ <<"find_source", NameA>> \in events
    /\ <<"compile", NameA>> \in events
    /\ sys_modules[NameA] = NoMod
    /\ heap[NameA] = <<>>

\* C19: a request through import_module for an uncached name that is in
\* the builtin table and not frozen calls the factory once, stores the
\* module it made under the name and hands that module to the requester;
\* nothing is searched, read, compiled or run, also when a file with that
\* name is on the search path.
C19_BuiltinFromFactory ==
    [][\A n \in stdlib_inits :
          (Requested(n) /\ sys_modules[n] = NoMod /\ n \notin DOMAIN frozen)
             => LET ref == [name |-> n, gen |-> Len(heap[n]) + 1]
                IN  /\ events' = {<<"factory", n>>, <<"register", n>>}
                    /\ Len(heap'[n]) = Len(heap[n]) + 1
                    /\ heap'[n][ref.gen] = [name |-> n, file |-> NoFile,
                                            path |-> NoFile, keys |-> {}]
                    /\ sys_modules' = [sys_modules EXCEPT ![n] = ref]
                    /\ Delivered(ref)
                    /\ executed' = executed]_vars

\* "_imp" was imported while p/_imp.py exists
C19_Witness ==
    /\ call.op = "import_module"
    /\ call.name = Imp
    /\ ~call.repeat
    /\ ret = Ok([name |-> Imp, gen |-> 1])
    /\ sys_modules[Imp] = [name |-> Imp, gen |-> 1]
    /\ FileOf(DirP, Imp, 1) \in DOMAIN fs
    /\ find_source(fs, sys_path, DirC, Imp).ok
    /\ events = {<<"factory", Imp>>, <<"register", Imp>>}

====
